---- MODULE Spec2Model ----
(***************************************************************************)
(* sentrykit: the Sentry adapter for Fiber v3.                             *)
(*   client.go      Init, Close and the global convenience API             *)
(*   middleware.go  New (the request middleware), extractHeaders,          *)
(*                  GetHubFromContext and the *FromContext API             *)
(* (middleware.go is src/unnamed/part_001, lines 1-187.)                   *)
(*                                                                         *)
(* A hub is an object of the SDK: a stack of layers, each a client (or     *)
(* none) and a scope (tags, contexts, user, level, breadcrumbs).  Hubs are *)
(* identified by the order in which they are allocated; hub 0 is           *)
(* sentry.CurrentHub().  Each hub also records the events its client       *)
(* built, with the scope data applied at capture time.                     *)
(*                                                                         *)
(* A step is one call on a hub or a scope: a function that makes several   *)
(* (the middleware after c.Next, CaptureMessage, CaptureMessageFromContext,*)
(* WithScope) takes several steps, and other goroutines run in between.    *)
(***************************************************************************)
EXTENDS Integers, Sequences, FiniteSets, TLC

\* ------------------------------------------------------------------ bounds
NumReq == 2            \* request slots (each serves one request)
MaxHeaders == 5        \* header entries of a request in SpecEntry
MaxApiCalls == 2       \* calls of the convenience API, global and *FromContext

\* ------------------------------------------------------- program constants
DefaultTimeout == 2                \* 2 * time.Second
StatusInternalServerError == 500   \* fiber.StatusInternalServerError

VARIABLES
    hubs,      \* hub id -> [client, scope, sid, stack, nsid, events]; hub 0 is
               \* the global hub; client and scope are the top layer of the
               \* hub's stack and sid the identity of that scope object, stack
               \* the layers below it, nsid the identity of the next scope
    lastInit,  \* the last call of Init: the DSN it was given, what it returned
    mwCfg,     \* <<>> until New is called, then <<cfg>> of the handler closure
    pc,        \* per request: "idle", "handler", "scope" (the handler holds a
               \* scope), "message" (before line 153), "exit" (after c.Next returned),
               \* "deferred" (in the deferred function), "done", "crashed"
    reqIn,     \* per request: the request being served
    locals,    \* per request: request-local storage (c.Locals), a map
    mwHub,     \* per request: the middleware's local variable hub (NilHub if
               \* the route does not run the middleware)
    nextRes,   \* per request: how c.Next() ended (returned a value, panicked)
    calls,     \* per request: the hub calls the middleware made after c.Next
    ret,       \* per request: how the outermost handler ended
    lastTag,   \* per request: the value of its last SetTagFromContext ("" none)
    got,       \* per request: what its last GetHubFromContext returned
    apiCalls,  \* calls made of the convenience API (global and *FromContext)
    globalPending, \* the levels of the calls of CaptureMessage that have
               \* captured and not yet set their level
    globalWrites, \* the calls on a scope of the global hub that goroutines are
               \* about to make: the scope they obtained, the call
    globalScopes, \* the scopes pushed by the calls of WithScope in progress
    held,      \* per request: the scope the handler obtained with hub.Scope()
               \* and the call it is about to make on it
    msgCall    \* per request: the call of CaptureMessageFromContext it is in
               \* (message, level, the resolved hub as the call found it)

vars == <<hubs, lastInit, mwCfg, pc, reqIn, locals, mwHub, nextRes, calls, ret,
          lastTag, got, apiCalls, globalPending, globalWrites, globalScopes,
          held, msgCall>>

Req == 1..NumReq

\* ------------------------------------------------------------ Go maps
EmptyMap == [x \in {} |-> ""]
Put(m, k, v) == [x \in (DOMAIN m) \cup {k} |-> IF x = k THEN v ELSE m[x]]
Has(m, k) == k \in DOMAIN m

\* ------------------------------------------------------------ values
\* An error value (or nil), or a panic value.
\*   kind "fiber":   a *fiber.Error with Code = code
\*   kind "plain":   any other error type (errors.New)
\*   kind "wrapped": fmt.Errorf("...: %w", fiber.NewError(code))
Val(k, c, m) == [kind |-> k, code |-> c, msg |-> m]
NilErr == Val("nil", 0, "")
FiberErrors == {Val("fiber", c, "fiber") : c \in {404, 499, 500, 503}}
Errors == FiberErrors \cup {Val("plain", 0, "boom"), Val("wrapped", 404, "wrap: fiber")}
Panics == {Val("panic", 0, "oops")}
NilDeref == Val("panic", 0, "nil pointer dereference")

\* A value held in request-local storage.
NilHub == 0 - 1
GlobalHub == 0
LocHub(h) == [t |-> "hub", id |-> h, s |-> ""]
LocStr(s) == [t |-> "string", id |-> 0, s |-> s]
LocInt(n) == [t |-> "int", id |-> n, s |-> ""]

Digits == <<"0", "1", "2", "3", "4", "5", "6", "7", "8", "9">>
\* strconv: the decimal digits of n >= 0
RECURSIVE Decimal(_)
Decimal(n) ==
    IF n < 10 THEN Digits[n + 1] ELSE Decimal(n \div 10) \o Digits[(n % 10) + 1]
\* fmt.Sprintf("%v", v): a string as it is, an int in decimal with its sign, a
\* nil pointer as <nil>, a pointer to a struct as &{...} (the fields of a hub
\* are stood for by its identity)
Sprintf(v) ==
    IF v.t = "string" THEN v.s
    ELSE IF v.t = "int"
    THEN (IF v.id < 0 THEN "-" \o Decimal(0 - v.id) ELSE Decimal(v.id))
    ELSE IF v.id = NilHub THEN "<nil>"
    ELSE "&{" \o Decimal(v.id) \o "}"

\* ------------------------------------------------------------ the SDK
\* sentry.Level values; "" is the unset level of a new scope
LevelInfo == "info"
LevelError == "error"
LevelFatal == "fatal"
Levels == {"warning", LevelError}

NoUser == [id |-> "", email |-> "", username |-> ""]
NoClient == [bound |-> FALSE, dsn |-> "", environment |-> ""]
\* sentry.NewScope()
NewScope ==
    [tags |-> EmptyMap, contexts |-> EmptyMap, user |-> NoUser, level |-> "",
     breadcrumbs |-> <<>>]
\* the hub the SDK starts with: NewHub(nil, NewScope())
InitialHub ==
    [client |-> NoClient, scope |-> NewScope, sid |-> 0, stack |-> <<>>, nsid |-> 1,
     events |-> <<>>]

\* hub.Clone(): a new hub of one layer, with the client and a copy of the scope
\* of the top layer
Clone(hub) ==
    [client |-> hub.client, scope |-> hub.scope, sid |-> 0, stack |-> <<>>, nsid |-> 1,
     events |-> <<>>]
\* mutant: no new hub, the request works on the global hub
NewHubIdShared(hs) == GlobalHub
\* the identity of a newly allocated hub
NewHubId(hs) == Cardinality(DOMAIN hs)

\* hub.Scope().SetTag / SetContext / SetUser
SetTag(hub, k, v) == [hub EXCEPT !.scope.tags = Put(@, k, v)]
SetContext(hub, k, v) == [hub EXCEPT !.scope.contexts = Put(@, k, v)]
SetUser(hub, u) == [hub EXCEPT !.scope.user = u]

\* The event a client builds: the scope is applied when the event is captured,
\* and a level set on the scope replaces the event's own.
MakeEvent(scope, kind, value, level) ==
    [kind |-> kind, value |-> value,
     level |-> IF scope.level # "" THEN scope.level ELSE level,
     tags |-> scope.tags, contexts |-> scope.contexts, user |-> scope.user,
     breadcrumbs |-> scope.breadcrumbs]
\* hub.CaptureException / CaptureMessage / Recover: nothing without a client
Capture(hub, kind, value, level) ==
    IF hub.client.bound
    THEN [hub EXCEPT !.events = Append(@, MakeEvent(hub.scope, kind, value, level))]
    ELSE hub
HubCaptureException(hub, err) == Capture(hub, "exception", err, LevelError)
HubCaptureMessage(hub, m) == Capture(hub, "message", Val("message", 0, m), LevelInfo)
HubRecover(hub, v) == Capture(hub, "recover", v, LevelFatal)
\* hub.AddBreadcrumb(b, nil): appended to the scope, with or without a client
HubAddBreadcrumb(hub, b) == [hub EXCEPT !.scope.breadcrumbs = Append(@, b)]
\* hub.PushScope(): a new top layer, with the client of the old one and a new
\* scope, a copy of the old one
PushScope(hub) ==
    [hub EXCEPT !.stack = Append(@, [client |-> hub.client, scope |-> hub.scope,
                                     sid |-> hub.sid]),
                !.sid = hub.nsid,
                !.nsid = hub.nsid + 1]
\* hub.PopScope(): the top layer is dropped, unless it is the only one
PopScope(hub) ==
    IF hub.stack = <<>> THEN hub
    ELSE [hub EXCEPT !.client = hub.stack[Len(hub.stack)].client,
                     !.scope = hub.stack[Len(hub.stack)].scope,
                     !.sid = hub.stack[Len(hub.stack)].sid,
                     !.stack = SubSeq(hub.stack, 1, Len(hub.stack) - 1)]
\* one call on a scope: scope.SetTag(k, v), scope.SetLevel(v), scope.SetUser(u)
\* or scope.SetContext(k, d)
ScopeCall(op, k, v, u, d) == [op |-> op, k |-> k, v |-> v, u |-> u, d |-> d]
TagCall(k, v) == ScopeCall("SetTag", k, v, NoUser, EmptyMap)
LevelCall(l) == ScopeCall("SetLevel", "", l, NoUser, EmptyMap)
UserCall(u) == ScopeCall("SetUser", "", "", u, EmptyMap)
ContextCall(k, d) == ScopeCall("SetContext", k, "", NoUser, d)
OnScope(scope, e) ==
    IF e.op = "SetTag" THEN [scope EXCEPT !.tags = Put(@, e.k, e.v)]
    ELSE IF e.op = "SetLevel" THEN [scope EXCEPT !.level = e.v]
    ELSE IF e.op = "SetUser" THEN [scope EXCEPT !.user = e.u]
    ELSE [scope EXCEPT !.contexts = Put(@, e.k, e.d)]
\* hub.Scope(): the scope of the top layer
Scope(hub) == hub.sid
\* the call e on the scope sid of the hub: on the layer that holds that scope,
\* on top or below; a scope whose layer was popped is in no hub any more
ScopeWrite(hub, sid, e) ==
    IF hub.sid = sid THEN [hub EXCEPT !.scope = OnScope(@, e)]
    ELSE [hub EXCEPT !.stack =
                 [i \in DOMAIN hub.stack |->
                     IF hub.stack[i].sid = sid
                     THEN [hub.stack[i] EXCEPT !.scope = OnScope(@, e)]
                     ELSE hub.stack[i]]]

\* ------------------------------------------------------------ client.go
DSNs == {"", "https://key@sentry.io/1", "not a dsn"}
\* sentry.Init accepts a DSN it can parse, and the empty DSN (a client that
\* sends nothing)
ValidDSN(d) == d = "" \/ d = "https://key@sentry.io/1"
Environments == {"", "production"}

\* mutant: Init without its check of the DSN
DSNNeverMissing(cfg) == FALSE
\* Init's check of the DSN (client.go:33)
DSNMissing(cfg) == cfg.DSN = ""
\* the environment Init passes on (client.go:38-40)
EnvironmentOf(cfg) == IF cfg.Environment = "" THEN "development" ELSE cfg.Environment

\* Init(cfg)
SentryInit(cfg) ==
    /\ IF DSNMissing(cfg)
       THEN /\ lastInit' = [dsn |-> cfg.DSN, err |-> "sentry DSN is required"]
            /\ UNCHANGED hubs
       ELSE IF ~ValidDSN(cfg.DSN)
       THEN /\ lastInit' = [dsn |-> cfg.DSN, err |-> "failed to initialize Sentry"]
            /\ UNCHANGED hubs
       ELSE /\ lastInit' = [dsn |-> cfg.DSN, err |-> "nil"]
            /\ hubs' = [hubs EXCEPT ![GlobalHub].client =
                          [bound |-> TRUE, dsn |-> cfg.DSN,
                           environment |-> EnvironmentOf(cfg)]]
    /\ UNCHANGED <<mwCfg, pc, reqIn, locals, mwHub, nextRes, calls, ret, lastTag, got,
                   apiCalls, globalPending, msgCall,
                   globalWrites, globalScopes, held>>

\* one more call of the convenience API
ApiCall ==
    /\ apiCalls < MaxApiCalls
    /\ apiCalls' = apiCalls + 1

\* what the functions of client.go do to the hub they act on
ClientCaptureException(hub, err) == HubCaptureException(hub, err)
\* CaptureMessage: the message is captured (line 77), then the level is set on
\* the scope (lines 78-80)
CaptureMessageSend(hub, m) == HubCaptureMessage(hub, m)
CaptureMessageLevel(hub, level) == ScopeWrite(hub, Scope(hub), LevelCall(level))
ClientCaptureMessage(hub, m, level) ==
    CaptureMessageLevel(CaptureMessageSend(hub, m), level)
Breadcrumb(m, category, data) ==
    [message |-> m, category |-> category, data |-> data, level |-> LevelInfo]
ClientAddBreadcrumb(hub, m, category, data) ==
    HubAddBreadcrumb(hub, Breadcrumb(m, category, data))
User(id, email, username) == [id |-> id, email |-> email, username |-> username]
\* sentry.ConfigureScope(f): f is given hub.Scope() and makes its call on it
ClientSetUser(hub, id, email, username) ==
    ScopeWrite(hub, Scope(hub), UserCall(User(id, email, username)))
ClientSetTag(hub, k, v) == ScopeWrite(hub, Scope(hub), TagCall(k, v))
ClientSetContext(hub, k, data) == ScopeWrite(hub, Scope(hub), ContextCall(k, data))

\* sentry.ConfigureScope(f) up to the call of f: f is given the scope now on top
\* of the global hub, on which it will make the call e
ConfigureScope(e) ==
    /\ globalWrites' = Append(globalWrites, [sid |-> Scope(hubs[GlobalHub]), e |-> e])
    /\ UNCHANGED hubs

\* the tag key the handlers and the global API set
UserKey == "feature"
\* the values the requests under the middleware set for it, and the value set
\* through the global hub
TagVals == {"v1", "v2"}
GlobalTagVal == "g1"

\* SetTag(key, value), up to the callback
GlobalSetTag(v) ==
    /\ ApiCall
    /\ ConfigureScope(TagCall(UserKey, v))
    /\ UNCHANGED <<lastInit, mwCfg, pc, reqIn, locals, mwHub, nextRes, calls, ret, lastTag,
                   got, globalPending, held, msgCall,
                   globalScopes>>

\* CaptureException(err): through the global hub
GlobalCaptureException(err) ==
    /\ ApiCall
    /\ hubs' = [hubs EXCEPT ![GlobalHub] = ClientCaptureException(@, err)]
    /\ UNCHANGED <<lastInit, mwCfg, pc, reqIn, locals, mwHub, nextRes, calls, ret, lastTag,
                   got, globalPending, msgCall,
                   globalWrites, held,
                   globalScopes>>

\* a value of sequence q without its i-th
Without(q, i) == SubSeq(q, 1, i - 1) \o SubSeq(q, i + 1, Len(q))

\* the callback of the i-th pending sentry.ConfigureScope makes its call, on
\* the scope it was given, and the function returns
GlobalScopeWrite(i) ==
    /\ i \in DOMAIN globalWrites
    /\ hubs' = [hubs EXCEPT
                 ![GlobalHub] = ScopeWrite(@, globalWrites[i].sid, globalWrites[i].e)]
    /\ globalWrites' = Without(globalWrites, i)
    /\ UNCHANGED <<lastInit, mwCfg, pc, reqIn, locals, mwHub, nextRes, calls, ret, lastTag,
                   got, apiCalls, globalPending, held, msgCall,
                   globalScopes>>

\* CaptureMessage(message, level), line 77: the message is captured
GlobalCaptureMessage(m, level) ==
    /\ ApiCall
    /\ hubs' = [hubs EXCEPT ![GlobalHub] = CaptureMessageSend(@, m)]
    /\ globalPending' = Append(globalPending, level)
    /\ UNCHANGED <<lastInit, mwCfg, pc, reqIn, locals, mwHub, nextRes, calls, ret, lastTag,
                   got, globalWrites, held, msgCall,
                   globalScopes>>

\* CaptureMessage, line 78: the i-th pending call goes on to
\* sentry.ConfigureScope, whose callback will set its level (line 79)
GlobalCaptureMessageLevel(i) ==
    /\ i \in DOMAIN globalPending
    /\ ConfigureScope(LevelCall(globalPending[i]))
    /\ globalPending' = Without(globalPending, i)
    /\ UNCHANGED <<lastInit, mwCfg, pc, reqIn, locals, mwHub, nextRes, calls, ret, lastTag,
                   got, apiCalls, held, msgCall,
                   globalScopes>>

\* AddBreadcrumb(message, category, data)
GlobalAddBreadcrumb(m, category, data) ==
    /\ ApiCall
    /\ hubs' = [hubs EXCEPT ![GlobalHub] = ClientAddBreadcrumb(@, m, category, data)]
    /\ UNCHANGED <<lastInit, mwCfg, pc, reqIn, locals, mwHub, nextRes, calls, ret, lastTag,
                   got, globalPending, msgCall,
                   globalWrites, held,
                   globalScopes>>

\* SetUser(userID, email, username), up to the callback
GlobalSetUser(id, email, username) ==
    /\ ApiCall
    /\ ConfigureScope(UserCall(User(id, email, username)))
    /\ UNCHANGED <<lastInit, mwCfg, pc, reqIn, locals, mwHub, nextRes, calls, ret, lastTag,
                   got, globalPending, held, msgCall,
                   globalScopes>>

\* SetContext(key, data), up to the callback
GlobalSetContext(k, data) ==
    /\ ApiCall
    /\ ConfigureScope(ContextCall(k, data))
    /\ UNCHANGED <<lastInit, mwCfg, pc, reqIn, locals, mwHub, nextRes, calls, ret, lastTag,
                   got, globalPending, held, msgCall,
                   globalScopes>>

\* ConfigureScope(f), up to the callback: f will make the call e
GlobalConfigureScope(e) ==
    /\ ApiCall
    /\ ConfigureScope(e)
    /\ UNCHANGED <<lastInit, mwCfg, pc, reqIn, locals, mwHub, nextRes, calls, ret, lastTag,
                   got, globalPending, held, msgCall,
                   globalScopes>>

\* WithScope(f): a layer is pushed on the global hub ...
GlobalWithScope ==
    /\ ApiCall
    /\ hubs' = [hubs EXCEPT ![GlobalHub] = PushScope(@)]
    /\ globalScopes' = Append(globalScopes, Scope(PushScope(hubs[GlobalHub])))
    /\ UNCHANGED <<lastInit, mwCfg, pc, reqIn, locals, mwHub, nextRes, calls, ret, lastTag,
                   got, globalPending, globalWrites, held, msgCall>>

\* ... the callback of the i-th call of WithScope in progress makes the call e
\* on the scope it was given, the one its call pushed ...
GlobalWithScopeCallback(i, e) ==
    /\ ApiCall
    /\ i \in DOMAIN globalScopes
    /\ hubs' = [hubs EXCEPT ![GlobalHub] = ScopeWrite(@, globalScopes[i], e)]
    /\ UNCHANGED <<lastInit, mwCfg, pc, reqIn, locals, mwHub, nextRes, calls, ret, lastTag,
                   got, globalPending, globalWrites, globalScopes, held, msgCall>>

\* ... and when the callback of the i-th has returned, the layer then on top
\* is popped
GlobalWithScopeReturn(i) ==
    /\ i \in DOMAIN globalScopes
    /\ hubs' = [hubs EXCEPT ![GlobalHub] = PopScope(@)]
    /\ globalScopes' = Without(globalScopes, i)
    /\ UNCHANGED <<lastInit, mwCfg, pc, reqIn, locals, mwHub, nextRes, calls, ret, lastTag,
                   got, apiCalls, globalPending, globalWrites, held, msgCall>>

\* recover() in a function that is not panicking
NoPanic == Val("nil", 0, "")
\* RecoverWithSentry(), deferred by a goroutine that ends with the panic v or
\* without one: the panic is captured on the global hub, then sentry.Flush
\* waits (it changes no scope)
GlobalRecoverWithSentry(v) ==
    /\ ApiCall
    /\ hubs' = [hubs EXCEPT ![GlobalHub] = IF v # NoPanic THEN HubRecover(@, v) ELSE @]
    /\ UNCHANGED <<lastInit, mwCfg, pc, reqIn, locals, mwHub, nextRes, calls, ret, lastTag,
                   got, globalPending, msgCall,
                   globalWrites, held,
                   globalScopes>>

\* ------------------------------------------------------------ middleware.go
Fields == {"Repanic", "WaitForDelivery", "Timeout"}
\* DefaultMiddlewareConfig()
DefaultMiddlewareConfig ==
    [Repanic |-> FALSE, WaitForDelivery |-> FALSE, Timeout |-> DefaultTimeout]
\* the zero value of MiddlewareConfig
ZeroConfig == [Repanic |-> FALSE, WaitForDelivery |-> FALSE, Timeout |-> 0]
\* a composite literal MiddlewareConfig{...}: lit.given names the fields written
\* in it, the others are zero
Literal(lit) ==
    [Repanic |-> IF "Repanic" \in lit.given THEN lit.Repanic ELSE ZeroConfig.Repanic,
     WaitForDelivery |-> IF "WaitForDelivery" \in lit.given THEN lit.WaitForDelivery
                         ELSE ZeroConfig.WaitForDelivery,
     Timeout |-> IF "Timeout" \in lit.given THEN lit.Timeout ELSE ZeroConfig.Timeout]
\* the cfg of New(config...): config is the sequence of literals passed
ConfigOf(config) ==
    IF Len(config) > 0 THEN Literal(config[1]) ELSE DefaultMiddlewareConfig

\* New(config...): builds the handler; mwCfg keeps the arguments and the cfg
\* the closure captured
New(config) ==
    /\ mwCfg = <<>>
    /\ mwCfg' = <<[args |-> config, cfg |-> ConfigOf(config)]>>
    /\ UNCHANGED <<hubs, lastInit, pc, reqIn, locals, mwHub, nextRes, calls, ret, lastTag,
                   got, apiCalls, globalPending, msgCall,
                   globalWrites, held,
                   globalScopes>>

\* a request header list as Header.VisitAll visits it
Hdr(k, v) == [key |-> k, value |-> v]
\* mutant: X-Api-Key is not on the denylist
SensitiveWithoutApiKey(keyStr) == keyStr = "Authorization" \/ keyStr = "Cookie"
\* extractHeaders: the test on the header name
Sensitive(keyStr) == keyStr = "Authorization" \/ keyStr = "Cookie" \/ keyStr = "X-Api-Key"
RECURSIVE VisitAll(_, _)
VisitAll(hs, headers) ==
    IF hs = <<>> THEN headers
    ELSE VisitAll(Tail(hs),
                  IF ~Sensitive(Head(hs).key)
                  THEN Put(headers, Head(hs).key, Head(hs).value)
                  ELSE headers)
\* extractHeaders(c)
extractHeaders(c) == VisitAll(c.headers, EmptyMap)

\* c.Get(name): the value of the request header, "" if there is none
RECURSIVE Get(_, _)
Get(hs, name) ==
    IF hs = <<>> THEN ""
    ELSE IF Head(hs).key = name THEN Head(hs).value ELSE Get(Tail(hs), name)

\* the "request" context of the entry phase
RequestContext(c) ==
    [url |-> c.url, method |-> c.method, query_string |-> c.query,
     headers |-> extractHeaders(c), ip |-> c.ip,
     user_agent |-> Get(c.headers, "User-Agent")]

\* the hub of a request: lines 41-67, g the global hub, loc the request's
\* local storage when the middleware is entered
EntryHub(g, c, loc) ==
    LET h0 == Clone(g)
        h1 == SetContext(h0, "request", RequestContext(c))
        h2 == SetTag(SetTag(h1, "path", c.path), "method", c.method)
        h3 == IF Has(loc, "user_id")
              THEN SetUser(h2, [id |-> Sprintf(loc["user_id"]), email |-> "",
                                username |-> ""])
              ELSE h2
    IN IF c.tenantId # "" THEN SetTag(h3, "tenant_id", c.tenantId) ELSE h3

\* mutant: the global hub is stored, not the clone
StoredGlobalHub(h) == LocHub(GlobalHub)
\* what the middleware stores under "sentry_hub" (line 70)
StoredHub(h) == LocHub(h)

\* the middleware up to the call of c.Next, lines 39-70
MiddlewareEntry(r, c, loc) ==
    /\ pc[r] = "idle"
    /\ mwCfg # <<>>
    /\ LET h == NewHubId(hubs) IN
        /\ hubs' = [x \in (DOMAIN hubs) \cup {h} |->
                      IF x = h THEN EntryHub(hubs[GlobalHub], c, loc) ELSE hubs[x]]
        /\ mwHub' = [mwHub EXCEPT ![r] = h]
        /\ locals' = [locals EXCEPT ![r] = Put(loc, "sentry_hub", StoredHub(h))]
    /\ reqIn' = [reqIn EXCEPT ![r] = c]
    /\ pc' = [pc EXCEPT ![r] = "handler"]
    /\ UNCHANGED <<lastInit, mwCfg, nextRes, calls, ret, lastTag, got,
                   apiCalls, globalPending, msgCall,
                   globalWrites, held,
                   globalScopes>>

\* a route the middleware is not mounted on: the handler runs at once
DirectEntry(r, c, loc) ==
    /\ pc[r] = "idle"
    /\ reqIn' = [reqIn EXCEPT ![r] = c]
    /\ locals' = [locals EXCEPT ![r] = loc]
    /\ pc' = [pc EXCEPT ![r] = "handler"]
    /\ UNCHANGED <<hubs, lastInit, mwCfg, mwHub, nextRes, calls, ret, lastTag, got,
                   apiCalls, globalPending, msgCall,
                   globalWrites, held,
                   globalScopes>>

\* GetHubFromContext(c): the hub under "sentry_hub" if the value stored there
\* has type *sentry.Hub, the global hub otherwise
GetHubFromContext(loc) ==
    IF Has(loc, "sentry_hub") /\ loc["sentry_hub"].t = "hub"
    THEN loc["sentry_hub"].id
    ELSE GlobalHub

\* one call the middleware makes on its hub after c.Next: v an error or panic
\* value, n a status code or a timeout
Call(op, v, n) == [op |-> op, v |-> v, n |-> n]

\* the "error_details" context (lines 102-109)
ErrorDetails(err, code, c) ==
    [error |-> err.msg, path |-> c.path, method |-> c.method, status |-> code,
     ip |-> c.ip, user_agent |-> Get(c.headers, "User-Agent")]

\* the effect of one call on the hub
Apply(hub, call, c) ==
    IF call.op = "CaptureException" THEN HubCaptureException(hub, call.v)
    ELSE IF call.op = "SetContext"
    THEN SetContext(hub, "error_details", ErrorDetails(call.v, call.n, c))
    ELSE IF call.op = "Recover" THEN HubRecover(hub, call.v)
    ELSE hub  \* Flush: waits, changes no scope

\* the status of a returned error (lines 92-95)
StatusOf(err) == IF err.kind = "fiber" THEN err.code ELSE StatusInternalServerError
\* mutant: the client errors (4xx) are captured too
ServerErrorFrom400(code) == code >= 400
\* "Only capture server errors (5xx)" (line 98)
ServerError(code) == code >= 500
\* mutant: the test err != nil of line 91 is missing
CapturedWithoutNilTest(err) == ServerError(StatusOf(err))
\* line 91 and line 98
Captured(err) == err # NilErr /\ ServerError(StatusOf(err))
\* mutant: the flush does not look at cfg.WaitForDelivery
FlushCallsAlways(cfg) == <<Call("Flush", NilErr, cfg.Timeout)>>
\* the optional flush (lines 77-79, 114-116)
FlushCalls(cfg) ==
    IF cfg.WaitForDelivery THEN <<Call("Flush", NilErr, cfg.Timeout)>> ELSE <<>>
\* the calls of lines 90-116, c.Next having returned err
ExitCalls(cfg, err) ==
    (IF Captured(err)
     THEN <<Call("CaptureException", err, 0), Call("SetContext", err, StatusOf(err))>>
     ELSE <<>>) \o FlushCalls(cfg)
\* mutant: after the recovery the exit phase runs too, on the panic value
RecoverCallsThenExit(cfg, v) ==
    <<Call("Recover", v, 0)>> \o FlushCalls(cfg)
    \o <<Call("CaptureException", v, 0), Call("SetContext", v, StatusInternalServerError)>>
    \o FlushCalls(cfg)
\* the calls of the deferred function (lines 74-79), c.Next having panicked with v
RecoverCalls(cfg, v) == <<Call("Recover", v, 0)>> \o FlushCalls(cfg)
\* mutant: the panic is absorbed whatever cfg.Repanic says
AfterRecoverAbsorbed(cfg, v) == [how |-> "return", value |-> NilErr]
\* how the middleware ends after a panic (lines 81-83): it panics again, or
\* returns the zero value of its result
AfterRecover(cfg, v) ==
    IF cfg.Repanic THEN [how |-> "panic", value |-> v]
    ELSE [how |-> "return", value |-> NilErr]
\* line 118
Returned(err) == [how |-> "return", value |-> err]

\* c.Next() returns err (nil or an error): line 88; the middleware goes on to
\* its exit phase
AfterNext(r, err) ==
    /\ pc[r] = "handler"
    /\ mwHub[r] # NilHub
    /\ nextRes' = [nextRes EXCEPT ![r] = [how |-> "return", value |-> err]]
    /\ pc' = [pc EXCEPT ![r] = "exit"]
    /\ UNCHANGED <<hubs, lastInit, mwCfg, reqIn, locals, mwHub, calls, ret, lastTag, got,
                   apiCalls, globalPending, msgCall,
                   globalWrites, held,
                   globalScopes>>

\* a panic with value v reaches the frame of request r: the deferred function
\* of the middleware (lines 73-85) if the middleware is on the route, the end
\* of the request otherwise
Unwind(r, v) ==
    /\ nextRes' = [nextRes EXCEPT ![r] = [how |-> "panic", value |-> v]]
    /\ IF mwHub[r] # NilHub
       THEN /\ pc' = [pc EXCEPT ![r] = "deferred"]
            /\ UNCHANGED ret
       ELSE /\ ret' = [ret EXCEPT ![r] = [how |-> "panic", value |-> v]]
            /\ pc' = [pc EXCEPT ![r] = "crashed"]
    /\ UNCHANGED <<hubs, calls>>

\* c.Next() panics with v
NextPanics(r, v) ==
    /\ pc[r] = "handler"
    /\ mwHub[r] # NilHub
    /\ Unwind(r, v)
    /\ UNCHANGED <<lastInit, mwCfg, reqIn, locals, mwHub, lastTag, got, apiCalls, globalPending, msgCall,
                   globalWrites, held,
                   globalScopes>>

\* the hub calls the middleware makes for request r from where it is: those of
\* the exit phase, or those of the deferred function
CallsOf(r) ==
    IF pc[r] = "exit" THEN ExitCalls(mwCfg[1].cfg, nextRes[r].value)
    ELSE RecoverCalls(mwCfg[1].cfg, nextRes[r].value)
\* how the middleware ends from where it is
EndOf(r) ==
    IF pc[r] = "exit" THEN Returned(nextRes[r].value)
    ELSE AfterRecover(mwCfg[1].cfg, nextRes[r].value)

\* the middleware makes its next call on the hub of request r (one of lines
\* 75, 78, 99, 102, 115); a Flush is the wait for the delivery
MiddlewareCall(r) ==
    /\ pc[r] \in {"exit", "deferred"}
    /\ Len(calls[r]) < Len(CallsOf(r))
    /\ LET call == CallsOf(r)[Len(calls[r]) + 1] IN
        /\ hubs' = [hubs EXCEPT ![mwHub[r]] = Apply(@, call, reqIn[r])]
        /\ calls' = [calls EXCEPT ![r] = Append(@, call)]
    /\ UNCHANGED <<lastInit, mwCfg, pc, reqIn, locals, mwHub, nextRes, ret, lastTag, got,
                   apiCalls, globalPending, msgCall,
                   globalWrites, held,
                   globalScopes>>

\* the middleware ends: return err (line 118), or the end of the deferred
\* function (lines 81-84)
MiddlewareReturn(r) ==
    /\ pc[r] \in {"exit", "deferred"}
    /\ Len(calls[r]) = Len(CallsOf(r))
    /\ ret' = [ret EXCEPT ![r] = EndOf(r)]
    /\ pc' = [pc EXCEPT ![r] = "done"]
    /\ UNCHANGED <<hubs, lastInit, mwCfg, reqIn, locals, mwHub, nextRes, calls, lastTag,
                   got, apiCalls, globalPending, msgCall,
                   globalWrites, held,
                   globalScopes>>

\* no scope held
NoHeld == [sid |-> 0, e |-> LevelCall(""), start |-> InitialHub]
\* hub := GetHubFromContext(c); hub.Scope(): the handler of request r resolves
\* its hub and obtains the scope now on top of it, on which it will make the
\* call e; hub.Scope() on a nil hub is a nil pointer dereference
ScopeFromContext(r, e) ==
    /\ ApiCall
    /\ pc[r] = "handler"
    /\ LET h == GetHubFromContext(locals[r]) IN
        /\ got' = [got EXCEPT ![r] = h]
        /\ IF h = NilHub
           THEN /\ Unwind(r, NilDeref)
                /\ UNCHANGED held
           ELSE /\ held' = [held EXCEPT
                              ![r] = [sid |-> Scope(hubs[h]), e |-> e, start |-> hubs[h]]]
                /\ pc' = [pc EXCEPT ![r] = "scope"]
                /\ UNCHANGED <<hubs, nextRes, calls, ret>>
    /\ UNCHANGED <<lastInit, mwCfg, reqIn, locals, mwHub, lastTag, globalPending,
                   globalWrites,
                   globalScopes>>

\* SetTagFromContext(c, UserKey, v), up to hub.Scope() (line 180)
SetTagFromContext(r, v) ==
    /\ ScopeFromContext(r, TagCall(UserKey, v))
    /\ UNCHANGED msgCall

\* what the *FromContext functions do to the hub they resolved
CtxCaptureException(hub, err) == HubCaptureException(hub, err)
\* CaptureMessageFromContext: the level is set on the scope (line 152), then
\* the message is captured (line 153)
CtxMessageLevel(hub, level) == ScopeWrite(hub, Scope(hub), LevelCall(level))
CtxMessageSend(hub, m) == HubCaptureMessage(hub, m)
CtxCaptureMessage(hub, m, level) == CtxMessageSend(CtxMessageLevel(hub, level), m)
CtxAddBreadcrumb(hub, m, category, data) ==
    HubAddBreadcrumb(hub, Breadcrumb(m, category, data))

\* a *FromContext function called by the handler of request r: the hub is
\* resolved and left as after; a method call on a nil hub is a nil pointer
\* dereference
FromContext(r, after) ==
    /\ ApiCall
    /\ pc[r] = "handler"
    /\ LET h == GetHubFromContext(locals[r]) IN
        /\ got' = [got EXCEPT ![r] = h]
        /\ IF h = NilHub
           THEN Unwind(r, NilDeref)
           ELSE /\ hubs' = [hubs EXCEPT ![h] = after]
                /\ UNCHANGED <<nextRes, calls, ret, pc>>
    /\ UNCHANGED <<lastInit, mwCfg, reqIn, locals, mwHub, lastTag, globalPending, msgCall,
                   globalWrites, held,
                   globalScopes>>

\* the hub request r resolves
Resolved(r) == hubs[GetHubFromContext(locals[r])]

CaptureExceptionFromContext(r, err) ==
    FromContext(r, CtxCaptureException(Resolved(r), err))
\* no call of CaptureMessageFromContext in progress
NoCall == [m |-> "", level |-> "", start |-> InitialHub]
\* CaptureMessageFromContext(c, message, level), up to hub.Scope() (line 152)
CaptureMessageFromContext(r, m, level) ==
    /\ ScopeFromContext(r, LevelCall(level))
    /\ msgCall' = IF GetHubFromContext(locals[r]) = NilHub THEN msgCall
                  ELSE [msgCall EXCEPT
                          ![r] = [m |-> m, level |-> level,
                                  start |-> hubs[GetHubFromContext(locals[r])]]]
\* the handler makes its call on the scope it holds (the second call of lines
\* 152, 170, 180, 186); CaptureMessageFromContext then goes on to line 153
ScopeWriteFromContext(r) ==
    /\ pc[r] = "scope"
    /\ hubs' = [hubs EXCEPT ![got[r]] = ScopeWrite(@, held[r].sid, held[r].e)]
    /\ lastTag' = IF held[r].e.op = "SetTag" /\ held[r].e.k = UserKey
                  THEN [lastTag EXCEPT ![r] = held[r].e.v]
                  ELSE lastTag
    /\ held' = [held EXCEPT ![r] = NoHeld]
    /\ pc' = [pc EXCEPT ![r] = IF msgCall[r] # NoCall THEN "message" ELSE "handler"]
    /\ UNCHANGED <<lastInit, mwCfg, reqIn, locals, mwHub, nextRes, calls, ret, got,
                   apiCalls, globalPending, globalWrites, msgCall,
                   globalScopes>>
\* CaptureMessageFromContext, line 153: the message is captured on the hub
\* resolved at line 151
CaptureMessageFromContextSend(r) ==
    /\ pc[r] = "message"
    /\ hubs' = [hubs EXCEPT ![got[r]] = CtxMessageSend(@, msgCall[r].m)]
    /\ msgCall' = [msgCall EXCEPT ![r] = NoCall]
    /\ pc' = [pc EXCEPT ![r] = "handler"]
    /\ UNCHANGED <<lastInit, mwCfg, reqIn, locals, mwHub, nextRes, calls, ret, lastTag,
                   got, apiCalls, globalPending, globalWrites, held,
                   globalScopes>>
AddBreadcrumbFromContext(r, m, category, data) ==
    FromContext(r, CtxAddBreadcrumb(Resolved(r), m, category, data))
\* SetUserFromContext(c, userID, email, username), up to hub.Scope() (line 170)
SetUserFromContext(r, id, email, username) ==
    /\ ScopeFromContext(r, UserCall(User(id, email, username)))
    /\ UNCHANGED msgCall
\* SetContextFromContext(c, key, data), up to hub.Scope() (line 186)
SetContextFromContext(r, k, data) ==
    /\ ScopeFromContext(r, ContextCall(k, data))
    /\ UNCHANGED msgCall

\* the handler of a route without the middleware returns err
DirectReturn(r, err) ==
    /\ pc[r] = "handler"
    /\ mwHub[r] = NilHub
    /\ nextRes' = [nextRes EXCEPT ![r] = [how |-> "return", value |-> err]]
    /\ ret' = [ret EXCEPT ![r] = Returned(err)]
    /\ pc' = [pc EXCEPT ![r] = "done"]
    /\ UNCHANGED <<hubs, lastInit, mwCfg, reqIn, locals, mwHub, calls, lastTag, got,
                   apiCalls, globalPending, msgCall,
                   globalWrites, held,
                   globalScopes>>

\* ------------------------------------------------------------ inputs
Conn(hs, tenant) ==
    [path |-> "/t", method |-> "GET", url |-> "/t?x=1", query |-> "x=1",
     headers |-> hs, ip |-> "10.0.0.1", tenantId |-> tenant]
NoConn == Conn(<<>>, "")

SensitiveNames == {"Authorization", "Cookie", "X-Api-Key"}
HdrEntries ==
    {Hdr(k, "secret") : k \in SensitiveNames}
    \cup {Hdr("Accept", "a"), Hdr("Accept", "b"), Hdr("authorization", "a")}
HeaderLists == UNION {[1..n -> HdrEntries] : n \in 0..MaxHeaders}

\* request-local storage as an earlier handler of the chain left it
NoLocals == EmptyMap

\* the arguments of New: none, or one literal
Lit(given, rp, w, t) ==
    [given |-> given, Repanic |-> rp, WaitForDelivery |-> w, Timeout |-> t]
Literals ==
    {l \in [given : SUBSET Fields, Repanic : BOOLEAN, WaitForDelivery : BOOLEAN,
            Timeout : {0, 5}] :
        /\ ("Repanic" \notin l.given => ~l.Repanic)
        /\ ("WaitForDelivery" \notin l.given => ~l.WaitForDelivery)
        /\ ("Timeout" \in l.given) = (l.Timeout = 5)}
ConfigArgs == {<<>>} \cup {<<lit>> : lit \in Literals}

InitConfigs == [DSN : DSNs, Environment : Environments]

\* ------------------------------------------------------------ specifications
Init ==
    /\ hubs = [h \in {GlobalHub} |-> InitialHub]
    /\ lastInit = [dsn |-> "", err |-> "unset"]
    /\ mwCfg = <<>>
    /\ pc = [r \in Req |-> "idle"]
    /\ reqIn = [r \in Req |-> NoConn]
    /\ locals = [r \in Req |-> NoLocals]
    /\ mwHub = [r \in Req |-> NilHub]
    /\ nextRes = [r \in Req |-> [how |-> "none", value |-> NilErr]]
    /\ calls = [r \in Req |-> <<>>]
    /\ ret = [r \in Req |-> [how |-> "none", value |-> NilErr]]
    /\ lastTag = [r \in Req |-> ""]
    /\ got = [r \in Req |-> GlobalHub]
    /\ apiCalls = 0
    /\ globalPending = <<>>
    /\ globalWrites = <<>>
    /\ globalScopes = <<>>
    /\ held = [r \in Req |-> NoHeld]
    /\ msgCall = [r \in Req |-> NoCall]

\* One request at a time, every configuration, every outcome; the global
\* captures are made before the request comes in.
NextSeq ==
    \/ \E cfg \in InitConfigs : SentryInit(cfg)
    \/ pc[1] = "idle" /\ GlobalCaptureException(Val("plain", 0, "boom"))
    \/ pc[1] = "idle" /\ GlobalCaptureMessage("hello", LevelError)
    \/ pc[1] = "idle" /\ \E i \in DOMAIN globalPending : GlobalCaptureMessageLevel(i)
    \/ pc[1] = "idle" /\ \E i \in DOMAIN globalWrites : GlobalScopeWrite(i)
    \/ \E a \in ConfigArgs : New(a)
    \/ MiddlewareEntry(1, Conn(<<Hdr("Accept", "a")>>, "t1"), NoLocals)
    \/ \E e \in Errors \cup {NilErr} : AfterNext(1, e)
    \/ \E v \in Panics : NextPanics(1, v)
    \/ MiddlewareCall(1)
    \/ MiddlewareReturn(1)
SpecSeq == Init /\ [][NextSeq]_vars

\* The entry phase on every request.
EntryCases ==
    {[tenant |-> "", loc |-> NoLocals],
     [tenant |-> "t1", loc |-> Put(NoLocals, "user_id", LocStr("u1"))],
     [tenant |-> "t1",
      loc |-> Put(Put(NoLocals, "user_id", LocInt(42)), "sentry_hub", LocStr("hub"))],
     [tenant |-> "", loc |-> Put(NoLocals, "user_id", LocInt(0 - 1))],
     [tenant |-> "", loc |-> Put(NoLocals, "user_id", LocHub(NilHub))]}
NextEntry ==
    \/ New(<<>>)
    \/ /\ pc[1] = "idle"
       /\ \E hs \in HeaderLists, e \in EntryCases :
             MiddlewareEntry(1, Conn(hs, e.tenant), e.loc)
SpecEntry == Init /\ [][NextEntry]_vars

\* Concurrent requests, with and without the middleware, served once Init has
\* bound the client.
MainArgs == {<<Lit({"Repanic", "WaitForDelivery"}, TRUE, FALSE, 0)>>}
MainConn == Conn(<<Hdr("Authorization", "a"), Hdr("Accept", "b")>>, "t1")
Next ==
    \/ SentryInit([DSN |-> "https://key@sentry.io/1", Environment |-> "production"])
    \/ \E a \in MainArgs : New(a)
    \/ GlobalSetTag(GlobalTagVal)
    \/ \E i \in DOMAIN globalWrites : GlobalScopeWrite(i)
    \/ /\ lastInit.err = "nil"
       /\ \E r \in Req :
             MiddlewareEntry(r, MainConn, Put(NoLocals, "sentry_hub", LocStr("hub")))
    \/ /\ lastInit.err = "nil"
       /\ \E r \in Req : DirectEntry(r, NoConn, NoLocals)
    \/ \E r \in Req, v \in TagVals : mwHub[r] # NilHub /\ SetTagFromContext(r, v)
    \/ \E r \in Req : mwHub[r] = NilHub /\ SetTagFromContext(r, GlobalTagVal)
    \/ \E r \in Req : ScopeWriteFromContext(r)
    \/ \E r \in Req : AfterNext(r, Val("fiber", 500, "fiber"))
    \/ \E r \in Req, v \in Panics : NextPanics(r, v)
    \/ \E r \in Req : MiddlewareCall(r)
    \/ \E r \in Req : MiddlewareReturn(r)
    \/ \E r \in Req : DirectReturn(r, NilErr)
Spec == Init /\ [][Next]_vars

\* The convenience API, global and from a request.
ApiErr == Val("plain", 0, "boom")
\* request-local storage on a route without the middleware: no "sentry_hub", a
\* value of another type, a nil *sentry.Hub
DirectLocals ==
    {NoLocals, Put(NoLocals, "sentry_hub", LocStr("hub")),
     Put(NoLocals, "sentry_hub", LocHub(NilHub))}
ApiData == [order |-> "o1"]
\* the calls of the callbacks given to ConfigureScope and WithScope
ScopeCalls == {TagCall("worker_id", "worker-1"), LevelCall("warning")}
NextApi ==
    \/ SentryInit([DSN |-> "https://key@sentry.io/1", Environment |-> ""])
    \/ New(<<>>)
    \/ MiddlewareEntry(1, NoConn, NoLocals)
    \/ \E loc \in DirectLocals : DirectEntry(1, NoConn, loc)
    \/ DirectReturn(1, NilErr)
    \/ GlobalCaptureException(ApiErr)
    \/ \E l \in Levels : GlobalCaptureMessage("hello", l)
    \/ \E i \in DOMAIN globalPending : GlobalCaptureMessageLevel(i)
    \/ \E i \in DOMAIN globalWrites : GlobalScopeWrite(i)
    \/ GlobalAddBreadcrumb("step", "http", ApiData)
    \/ GlobalSetUser("u1", "", "")
    \/ GlobalSetTag("v1")
    \/ GlobalSetContext("order", ApiData)
    \/ \E e \in ScopeCalls : GlobalConfigureScope(e)
    \/ GlobalWithScope
    \/ \E i \in DOMAIN globalScopes, e \in ScopeCalls : GlobalWithScopeCallback(i, e)
    \/ \E i \in DOMAIN globalScopes : GlobalWithScopeReturn(i)
    \/ \E v \in Panics \cup {NoPanic} : GlobalRecoverWithSentry(v)
    \/ CaptureExceptionFromContext(1, ApiErr)
    \/ \E l \in Levels : CaptureMessageFromContext(1, "hello", l)
    \/ ScopeWriteFromContext(1)
    \/ CaptureMessageFromContextSend(1)
    \/ AddBreadcrumbFromContext(1, "step", "http", ApiData)
    \/ SetUserFromContext(1, "u1", "", "")
    \/ SetTagFromContext(1, "v1")
    \/ SetContextFromContext(1, "order", ApiData)
SpecApi == Init /\ [][NextApi]_vars

\* ------------------------------------------------------------ properties
CountOp(cs, op) == Cardinality({i \in DOMAIN cs : cs[i].op = op})
\* request r went through the middleware, which has ended
MwDone(r) == pc[r] = "done" /\ mwHub[r] # NilHub
\* the events captured through the hub of request r
MwEvents(r) == hubs[mwHub[r]].events
Forwarded(r) == CountOp(calls[r], "CaptureException") + CountOp(calls[r], "Recover")

\* C1 (as claimed): when c.Next returns an error of status >= 500 the
\* middleware captures exactly once, the captured exception carries an
\* "error_details" context with that status, and the error is returned
\* unchanged.
C1_CapturedWithErrorDetails ==
    \A r \in Req :
        (/\ MwDone(r)
         /\ nextRes[r].how = "return"
         /\ nextRes[r].value \in Errors
         /\ StatusOf(nextRes[r].value) >= 500)
        => /\ CountOp(calls[r], "CaptureException") = 1
           /\ ret[r] = [how |-> "return", value |-> nextRes[r].value]
           /\ \A i \in DOMAIN MwEvents(r) :
                MwEvents(r)[i].kind = "exception"
                => /\ Has(MwEvents(r)[i].contexts, "error_details")
                   /\ MwEvents(r)[i].contexts["error_details"].status
                        = StatusOf(nextRes[r].value)

\* C2: when c.Next returns an error that carries a status below 500, the
\* middleware makes no capture call on its hub, the hub built no event, and the
\* middleware returns that same error.
C2_NoCaptureBelow500 ==
    \A r \in Req :
        (/\ MwDone(r)
         /\ nextRes[r].how = "return"
         /\ nextRes[r].value.kind = "fiber"
         /\ nextRes[r].value.code < 500)
        => /\ Forwarded(r) = 0
           /\ MwEvents(r) = <<>>
           /\ ret[r] = [how |-> "return", value |-> nextRes[r].value]
C2_Witness ==
    \E r \in Req :
        /\ MwDone(r)
        /\ hubs[mwHub[r]].client.bound
        /\ nextRes[r] = [how |-> "return", value |-> Val("fiber", 404, "fiber")]
        /\ ret[r] = nextRes[r]

\* C3: when c.Next panics with v the middleware calls hub.Recover(v) once, then
\* flushes if WaitForDelivery is set, and only then ends: with Repanic unset it
\* returns nil, with Repanic set it panics with v.
C3_PanicRecovered ==
    \A r \in Req :
        (MwDone(r) /\ nextRes[r].how = "panic")
        => LET cfg == mwCfg[1].cfg
               v == nextRes[r].value
           IN /\ calls[r] = <<Call("Recover", v, 0)>>
                            \o (IF cfg.WaitForDelivery
                                THEN <<Call("Flush", NilErr, cfg.Timeout)>>
                                ELSE <<>>)
              /\ hubs[mwHub[r]].client.bound
                 => /\ Len(MwEvents(r)) = 1
                    /\ MwEvents(r)[1].kind = "recover"
                    /\ MwEvents(r)[1].value = v
              /\ ~cfg.Repanic => ret[r] = [how |-> "return", value |-> NilErr]
              /\ cfg.Repanic => ret[r] = [how |-> "panic", value |-> v]
C3_Witness ==
    \E r \in Req :
        /\ MwDone(r)
        /\ nextRes[r].how = "panic"
        /\ mwCfg[1].cfg.Repanic
        /\ mwCfg[1].cfg.WaitForDelivery
        /\ ret[r] = nextRes[r]
        /\ Len(MwEvents(r)) = 1

\* C8 (as claimed): a field the caller of New left out has its default value.
C8_OmittedFieldsDefault ==
    mwCfg # <<>>
    => \A f \in Fields :
          (mwCfg[1].args = <<>> \/ f \notin mwCfg[1].args[1].given)
          => mwCfg[1].cfg[f] = DefaultMiddlewareConfig[f]

\* C9: when c.Next returns nil the middleware returns nil, makes no capture
\* call (CaptureException, Recover) on its hub, and the hub built no event.
C9_CleanRequest ==
    \A r \in Req :
        (MwDone(r) /\ nextRes[r] = [how |-> "return", value |-> NilErr])
        => /\ ret[r] = [how |-> "return", value |-> NilErr]
           /\ Forwarded(r) = 0
           /\ MwEvents(r) = <<>>
C9_Witness ==
    \E r \in Req :
        /\ MwDone(r)
        /\ hubs[mwHub[r]].client.bound
        /\ mwCfg[1].cfg.WaitForDelivery
        /\ nextRes[r] = [how |-> "return", value |-> NilErr]
        /\ ret[r] = nextRes[r]

\* the value of UserKey on a hub's scope, "" when the tag is not set
TagOn(h) == IF Has(hubs[h].scope.tags, UserKey) THEN hubs[h].scope.tags[UserKey] ELSE ""

\* C4: whatever the interleaving, the hub of a request that went through the
\* middleware holds for UserKey the value that request set last with
\* SetTagFromContext, and the global hub holds none of the values the requests
\* under the middleware set.
C4_TagsIsolated ==
    /\ \A r \in Req : (mwHub[r] # NilHub /\ lastTag[r] # "") => TagOn(mwHub[r]) = lastTag[r]
    /\ TagOn(GlobalHub) \notin TagVals
C4_Witness ==
    /\ \A r \in {1, 2} : pc[r] = "handler" /\ mwHub[r] # NilHub
    /\ lastTag[1] = "v1" /\ TagOn(mwHub[1]) = "v1"
    /\ lastTag[2] = "v2" /\ TagOn(mwHub[2]) = "v2"
    /\ TagOn(GlobalHub) = ""

\* the header list of request r has a header named k
Bears(r, k) == \E i \in DOMAIN reqIn[r].headers : reqIn[r].headers[i].key = k
\* the "headers" map of the "request" context on the hub of request r
CapturedHeaders(r) == hubs[mwHub[r]].scope.contexts["request"].headers
\* the value of the last header named k
LastValue(hs, k) ==
    hs[CHOOSE i \in DOMAIN hs :
          /\ hs[i].key = k
          /\ \A j \in DOMAIN hs : hs[j].key = k => j <= i].value

\* C5 (as claimed): for a request with the three denylisted headers, the
\* captured map has none of the three and has every other header of the
\* request, name and value.
C5_OthersVerbatim ==
    \A r \in Req :
        (mwHub[r] # NilHub /\ \A k \in SensitiveNames : Bears(r, k))
        => /\ \A k \in SensitiveNames : ~Has(CapturedHeaders(r), k)
           /\ \A i \in DOMAIN reqIn[r].headers :
                reqIn[r].headers[i].key \notin SensitiveNames
                => /\ Has(CapturedHeaders(r), reqIn[r].headers[i].key)
                   /\ CapturedHeaders(r)[reqIn[r].headers[i].key]
                        = reqIn[r].headers[i].value

\* C5 (amended): for a request with the three denylisted headers, the names
\* of the captured map are the header names of the request without the three,
\* each with the value of the last header of that name.
C5_OthersLastValue ==
    \A r \in Req :
        (mwHub[r] # NilHub /\ \A k \in SensitiveNames : Bears(r, k))
        => /\ DOMAIN CapturedHeaders(r)
                = {reqIn[r].headers[i].key : i \in DOMAIN reqIn[r].headers}
                  \ SensitiveNames
           /\ \A k \in DOMAIN CapturedHeaders(r) :
                CapturedHeaders(r)[k] = LastValue(reqIn[r].headers, k)
C5_Witness ==
    \E r \in Req :
        /\ mwHub[r] # NilHub
        /\ reqIn[r].headers = <<Hdr("Authorization", "secret"), Hdr("Accept", "a"),
                                Hdr("Cookie", "secret"), Hdr("X-Api-Key", "secret"),
                                Hdr("Accept", "b")>>
        /\ DOMAIN CapturedHeaders(r) = {"Accept"}
        /\ CapturedHeaders(r)["Accept"] = "b"

\* C6: a call of Init with an empty DSN returns the error and leaves every
\* hub, the global one included, as it was; and while the global hub has no
\* client, a capture through it builds no event and the middleware returns
\* what c.Next returned.
C6_EmptyDSNRejected ==
    /\ [][(lastInit' # lastInit /\ lastInit'.dsn = "")
          => (lastInit'.err = "sentry DSN is required" /\ hubs' = hubs)]_vars
    /\ [](~hubs[GlobalHub].client.bound
          => /\ hubs[GlobalHub].events = <<>>
             /\ \A r \in Req : (MwDone(r) /\ nextRes[r].how = "return")
                                 => ret[r] = nextRes[r])
C6_Witness ==
    /\ lastInit = [dsn |-> "", err |-> "sentry DSN is required"]
    /\ ~hubs[GlobalHub].client.bound
    /\ apiCalls > 0
    /\ \E r \in Req : MwDone(r) /\ CountOp(calls[r], "CaptureException") = 1

\* C7: a request that went through the middleware has one hub: a hub of its
\* own, not the global hub and not the hub of another request, made with the
\* "request" context at entry, stored under "sentry_hub" before c.Next runs,
\* resolved by GetHubFromContext, and the hub on which the middleware's
\* Recover and CaptureException built their event.
C7_OneHubPerRequest ==
    \A r \in Req :
        mwHub[r] # NilHub
        => /\ pc[r] \in {"handler", "scope", "exit", "deferred", "done"}
           /\ mwHub[r] \in DOMAIN hubs
           /\ mwHub[r] # GlobalHub
           /\ \A q \in Req \ {r} : mwHub[q] # mwHub[r]
           /\ Has(locals[r], "sentry_hub")
           /\ locals[r]["sentry_hub"] = LocHub(mwHub[r])
           /\ GetHubFromContext(locals[r]) = mwHub[r]
           /\ Has(hubs[mwHub[r]].scope.contexts, "request")
           /\ (pc[r] = "done" /\ hubs[mwHub[r]].client.bound)
              => /\ Len(MwEvents(r)) = Forwarded(r)
                 /\ \A i \in DOMAIN MwEvents(r) :
                      Has(MwEvents(r)[i].contexts, "request")
C7_Witness ==
    /\ pc[1] = "handler" /\ mwHub[1] # NilHub
    /\ pc[2] = "done" /\ mwHub[2] # NilHub
    /\ Len(MwEvents(2)) = 1
    /\ MwEvents(1) = <<>>

\* C10 (as claimed): the hub a *FromContext function resolves is never nil,
\* and resolving it never fails the request.
C10_NeverNil ==
    \A r \in Req : got[r] # NilHub /\ pc[r] # "crashed"

\* the Flush calls the middleware made for request r
FlushesOf(r) == {i \in DOMAIN calls[r] : calls[r][i].op = "Flush"}

\* C12 (as claimed): a request that neither panicked nor had a 5xx error
\* captured performed no flush.
C12_NoFlushWithoutCapture ==
    \A r \in Req :
        (MwDone(r) /\ Forwarded(r) = 0) => FlushesOf(r) = {}

\* C12 (amended): a request flushes once when WaitForDelivery is set, whatever
\* c.Next did, and never when it is not set; the flush is the last call on the
\* hub, with the Timeout of the configuration.
C12_FlushIffWaitForDelivery ==
    \A r \in Req :
        MwDone(r)
        => LET cfg == mwCfg[1].cfg IN
           /\ Cardinality(FlushesOf(r)) = (IF cfg.WaitForDelivery THEN 1 ELSE 0)
           /\ \A i \in FlushesOf(r) :
                i = Len(calls[r]) /\ calls[r][i].n = cfg.Timeout
C12_Witness ==
    \E r \in Req :
        /\ MwDone(r)
        /\ mwCfg[1].cfg.WaitForDelivery
        /\ mwCfg[1].cfg.Timeout = 5
        /\ nextRes[r] = [how |-> "return", value |-> NilErr]
        /\ calls[r] = <<Call("Flush", NilErr, 5)>>

\* the status an error carries: its own when it is a *fiber.Error, that of
\* the *fiber.Error it wraps, none (0) otherwise
CarriedCode(err) == IF err.kind \in {"fiber", "wrapped"} THEN err.code ELSE 0

\* C13 (as claimed): an error is captured iff its status (its code when it is
\* a *fiber.Error, 500 otherwise) is >= 500; an error that carries a code
\* below 500, wrapped or not, is never captured, and an untyped error always.
C13_CapturedIffServerError ==
    \A r \in Req :
        (MwDone(r) /\ nextRes[r].how = "return" /\ nextRes[r].value \in Errors)
        => LET err == nextRes[r].value IN
           /\ err.kind = "fiber"
              => (CountOp(calls[r], "CaptureException") = 1) = (err.code >= 500)
           /\ err.kind = "plain" => CountOp(calls[r], "CaptureException") = 1
           /\ (CarriedCode(err) > 0 /\ CarriedCode(err) < 500)
              => CountOp(calls[r], "CaptureException") = 0

\* C14: the middleware forwards at most one event to its hub: Recover and
\* CaptureException never both; after a panic it sets no "error_details"
\* context and makes no flush but the one of the recovery.
C14_AtMostOneForward ==
    \A r \in Req :
        MwDone(r)
        => /\ Forwarded(r) <= 1
           /\ Len(MwEvents(r)) <= 1
           /\ nextRes[r].how = "panic"
              => /\ CountOp(calls[r], "Recover") = 1
                 /\ CountOp(calls[r], "CaptureException") = 0
                 /\ CountOp(calls[r], "SetContext") = 0
                 /\ ~Has(hubs[mwHub[r]].scope.contexts, "error_details")
                 /\ Cardinality(FlushesOf(r)) <= 1
                 /\ \A i \in FlushesOf(r) : i = 2
C14_Witness ==
    \E r \in Req :
        /\ MwDone(r)
        /\ nextRes[r].how = "panic"
        /\ hubs[mwHub[r]].client.bound
        /\ mwCfg[1].cfg.WaitForDelivery
        /\ ~mwCfg[1].cfg.Repanic
        /\ calls[r] = <<Call("Recover", nextRes[r].value, 0),
                        Call("Flush", NilErr, mwCfg[1].cfg.Timeout)>>

\* what the global counterpart of the call e on a scope does to a hub
ClientScopeCall(hub, e) ==
    IF e.op = "SetTag" THEN ClientSetTag(hub, e.k, e.v)
    ELSE IF e.op = "SetUser" THEN ClientSetUser(hub, e.u.id, e.u.email, e.u.username)
    ELSE ClientSetContext(hub, e.k, e.d)

\* C11 (as claimed): a *FromContext function changes the hub it resolved as
\* its global counterpart would change that hub from the same state, with the
\* same arguments: the same event is captured, level included, and the same
\* scope results.  (For a function that makes several calls on the hub: when
\* nothing else acted on the hub between them.)
C11_SameAsGlobal ==
    [][\A r \in {1} :
          LET h == GetHubFromContext(locals[r]) IN
          /\ (pc[r] = "handler" /\ h \in DOMAIN hubs)
             => /\ CaptureExceptionFromContext(r, ApiErr)
                   => hubs'[h] = ClientCaptureException(hubs[h], ApiErr)
                /\ AddBreadcrumbFromContext(r, "step", "http", ApiData)
                   => hubs'[h] = ClientAddBreadcrumb(hubs[h], "step", "http", ApiData)
          /\ (/\ pc[r] = "scope"
              /\ msgCall[r] = NoCall
              /\ hubs[got[r]] = held[r].start
              /\ ScopeWriteFromContext(r))
             => hubs'[got[r]] = ClientScopeCall(held[r].start, held[r].e)
          /\ (/\ pc[r] = "message"
              /\ hubs[got[r]] = CtxMessageLevel(msgCall[r].start, msgCall[r].level)
              /\ CaptureMessageFromContextSend(r))
             => hubs'[got[r]] = ClientCaptureMessage(msgCall[r].start, msgCall[r].m,
                                                     msgCall[r].level)]_vars

====
